---- MODULE Spec2Model ----
(***************************************************************************)
(* Model of crates/db/src/kv/mod.rs: the Env wrapper over the MDBX        *)
(* environment (open, create_tables, begin_tx, begin_mut_tx, view,        *)
(* update), together with the parts of the engine and of the Tx wrapper   *)
(* (kv/tx.rs) that those functions call.                                   *)
(*                                                                         *)
(* One storage location is modelled.  Threads p \in Procs call the        *)
(* functions of Env; every engine call is one step, so calls of different *)
(* threads interleave.  Engine failures (open, begin, create_db, commit)  *)
(* are nondeterministic inputs.  The variables marked "history" record    *)
(* what callers did (their puts, the engine calls of a call); the code     *)
(* does not read them.  A definition named X_Suffix after a definition X   *)
(* is a faulty variant of X, against which the properties are tested.      *)
(***************************************************************************)
EXTENDS Integers, Sequences, FiniteSets, TLC

\* ---------------------------------------------------------------- bounds
NKeys == 1
NVals == 2

\* The threads that call into the Env: a reader beside a writer, or two
\* callers competing for the one writer slot.
Procs == {"t1", "t2"}
Keys == 1..NKeys
Vals == 1..NVals

\* ------------------------------------------------------- table registry
\* tables::TABLES, the (TableType, name) list create_tables iterates.
TABLES ==
    << <<"Table", "Headers">>,
       <<"Table", "PlainState">>,
       <<"DupSort", "PlainStorageState">> >>

TableNames == {TABLES[j][2] : j \in 1..Len(TABLES)}

\* The table the typed get/put of the model go to (tables::PlainState).
PlainState == "PlainState"

\* ------------------------------------------------------------- codecs
\* table::Encode / table::Decode: a value becomes a byte string; the empty
\* byte string stands for "no entry under this key".
Encode(v) == <<v>>

Decode(b) == IF Len(b) = 1 THEN [ok |-> TRUE, val |-> <<b[1]>>]
                           ELSE [ok |-> FALSE, val |-> <<>>]

NoBytes == <<>>

\* Values a get, or the operation passed to view/update, can produce:
\* ok = FALSE is a value that signals a failure of the caller's own logic.
NotFound == [ok |-> TRUE, val |-> <<>>]
Found(v) == [ok |-> TRUE, val |-> <<v>>]
Failure == [ok |-> FALSE, val |-> <<>>]

\* ------------------------------------------------------------- engine
\* The content of the storage location: which named tables exist, with
\* which flags, and the entries of the PlainState table.
EmptyDb ==
    [tables |-> [n \in TableNames |-> "absent"],
     data |-> [k \in Keys |-> NoBytes]]

NoWrites == [k \in Keys |-> <<>>]

NoTx == [kind |-> "none", view |-> EmptyDb]

NoOut == [status |-> "none", err |-> "none", val |-> <<>>]
OkOut(r) == [status |-> "Ok", err |-> "none", val |-> <<r>>]
ErrOut(e) == [status |-> "Err", err |-> e, val |-> <<>>]

NoLife == [begun |-> 0, commits |-> 0, aborts |-> 0, calls |-> 0,
           rejected |-> 0, faults |-> 0, made |-> <<>>, tries |-> 0,
           full |-> 0]

VARIABLES
    created,    \* the storage location exists on disk
    db,         \* committed content of the storage location
    env,        \* the open Env: [mode, maxDbs]; mode "closed" when none
    envErr,     \* error of the last Env::open
    truth,      \* history: per key, the value of the last committed put
    pc,         \* per thread: position in the function it runs
    op,         \* per thread: the function it runs
    tx,         \* per thread: the transaction it holds
    start,      \* history, per thread: truth when its transaction began
    puts,       \* history, per thread: the puts made through its transaction
    got,        \* per thread: key and result of its last get
    fret,       \* per thread: the value the operation f returned
    out,        \* per thread: the Result the function returned
    idx,        \* per thread: create_tables' position in TABLES
    life        \* history, per thread: the engine calls of this call (begin,
                \* commit, abort), the calls of f, the engine's refusals, and
                \* the create_db calls made, as <<name, flags>>, and the
                \* attempts to begin the transaction

vars == <<created, db, env, envErr, truth, pc, op, tx, start, puts, got, fret,
          out, idx, life>>

envVars == <<created, env, envErr>>
procVars == <<pc, op, tx, start, puts, got, fret, out, idx, life>>

ClosedEnv == [kind |-> "none", mode |-> "closed", maxDbs |-> 0]

NoGet == [k |-> 0, r |-> NotFound]

Init ==
    /\ created = FALSE
    /\ db = EmptyDb
    /\ env = ClosedEnv
    /\ envErr = "none"
    /\ truth = NoWrites
    /\ pc = [p \in Procs |-> "idle"]
    /\ op = [p \in Procs |-> "none"]
    /\ tx = [p \in Procs |-> NoTx]
    /\ start = [p \in Procs |-> NoWrites]
    /\ puts = [p \in Procs |-> NoWrites]
    /\ got = [p \in Procs |-> NoGet]
    /\ fret = [p \in Procs |-> <<>>]
    /\ out = [p \in Procs |-> NoOut]
    /\ idx = [p \in Procs |-> 0]
    /\ life = [p \in Procs |-> NoLife]

\* --------------------------------------------------------------- open
\* A maximum table count one short of the registry.
max_dbs_short(tables) == Len(tables) - 1

\* set_max_dbs(TABLES.len()): the maximum table count of the environment.
max_dbs(tables) == Len(tables)

\* The match giving the read-write mode for either kind.
ModeOf_AlwaysRW(kind) == "ReadWrite"

\* Mode of Env::open's match on EnvKind.
ModeOf(kind) == IF kind = "RO" THEN "ReadOnly" ELSE "ReadWrite"

\* Environment::open of the engine: a read-only open needs an existing
\* location; a read-write open creates it.
EngineCanOpen(mode) == mode = "ReadWrite" \/ created

\* open creating the tables of the registry in a read-write location.
Open_CreatesTables(kind) ==
    /\ env.mode = "closed"
    /\ EngineCanOpen(ModeOf(kind))
    /\ env' = [kind |-> kind, mode |-> ModeOf(kind), maxDbs |-> max_dbs(TABLES)]
    /\ created' = TRUE
    /\ envErr' = "none"
    /\ db' = IF kind = "RW"
             THEN [db EXCEPT !.tables =
                      [n \in TableNames |-> IF n = "PlainStorageState"
                                            THEN "DUP_SORT" ELSE "default"]]
             ELSE db
    /\ UNCHANGED truth
    /\ UNCHANGED procVars

\* Env::open, success: the handle with max_dbs = TABLES.len().
Open(kind) ==
    /\ env.mode = "closed"
    /\ EngineCanOpen(ModeOf(kind))
    /\ env' = [kind |-> kind, mode |-> ModeOf(kind), maxDbs |-> max_dbs(TABLES)]
    /\ created' = TRUE
    /\ envErr' = "none"
    /\ UNCHANGED <<db, truth>>
    /\ UNCHANGED procVars

\* Env::open, the engine refuses: map_err(KVError::DatabaseLocation)?.
OpenFail(kind) ==
    /\ env.mode = "closed"
    /\ envErr' = "DatabaseLocation"
    /\ UNCHANGED <<created, env, db, truth>>
    /\ UNCHANGED procVars

\* The Env is dropped; it outlives every transaction borrowed from it (a
\* caller may still hold the Result of a call that has returned).
Close ==
    /\ env.mode # "closed"
    /\ \A p \in Procs : pc[p] \in {"idle", "done"}
    /\ env' = ClosedEnv
    /\ UNCHANGED <<created, envErr, db, truth>>
    /\ UNCHANGED procVars

\* ------------------------------------------------ engine transactions
\* The engine admits one read-write transaction at a time.
WriterActive == \E q \in Procs : tx[q].kind = "RW"

\* Environment::begin_ro_txn: a snapshot of the committed content.
begin_ro_txn == [kind |-> "RO", view |-> db]

\* Environment::begin_rw_txn: a private working copy of the committed content.
begin_rw_txn == [kind |-> "RW", view |-> db]

\* begin_rw_txn can be granted: a read-write environment whose writer slot
\* is free.
CanBeginRw ==
    /\ env.mode = "ReadWrite"
    /\ ~WriterActive

\* With its transaction over, the history kept for it is dropped.
Forget(p) ==
    /\ start' = [start EXCEPT ![p] = NoWrites]
    /\ puts' = [puts EXCEPT ![p] = NoWrites]
    /\ got' = [got EXCEPT ![p] = NoGet]

\* The puts w laid over the values base.
Overlay(base, w) == [k \in Keys |-> IF w[k] # <<>> THEN w[k] ELSE base[k]]

\* Transaction::commit of the engine, accepted (ok) or rejected: a write
\* transaction's working copy becomes the committed content only when the
\* commit is accepted; either way the transaction is over.
EngineCommit(p, ok) ==
    /\ db' = IF ok /\ tx[p].kind = "RW" THEN tx[p].view ELSE db
    /\ truth' = IF ok /\ tx[p].kind = "RW" THEN Overlay(truth, puts[p]) ELSE truth
    /\ tx' = [tx EXCEPT ![p] = NoTx]
    /\ life' = [life EXCEPT ![p].commits = @ + 1,
                            ![p].rejected = IF ok THEN @ ELSE @ + 1]
    /\ Forget(p)

\* The transaction is dropped or aborted: its working copy is discarded.
EngineAbort(p) ==
    /\ UNCHANGED <<db, truth>>
    /\ tx' = [tx EXCEPT ![p] = NoTx]
    /\ life' = [life EXCEPT ![p].aborts = @ + 1]
    /\ Forget(p)

\* Transaction::create_db(Some(name), flags): opens the table, creating it
\* when absent; an existing table must have been created with the same flags.
CreateDbOk(view, name, flags) ==
    view.tables[name] \in {"absent", flags}

create_db(view, name, flags) ==
    [view EXCEPT !.tables[name] = flags]

\* The named tables thread p's transaction can hold a handle of, at most:
\* those that exist at the location and those it has created itself.
Handles(p) ==
    {n \in TableNames : db.tables[n] # "absent" \/ tx[p].view.tables[n] # "absent"}

\* The engine has a handle left for table name: the environment holds no
\* more table handles than its maximum table count.
DbiAvailable(p, name) == Cardinality(Handles(p) \cup {name}) <= env.maxDbs

\* ----------------------------------------------------- Env: transactions
\* begin_tx handing out the read transaction another thread already holds
\* instead of beginning a new one.
begin_tx_shared(p) ==
    IF \E q \in Procs : tx[q].kind = "RO"
    THEN tx[CHOOSE q \in Procs : tx[q].kind = "RO"]
    ELSE begin_ro_txn

\* begin_tx reading through the running write transaction.
begin_tx_dirty(p) ==
    IF \E q \in Procs : tx[q].kind = "RW"
    THEN [kind |-> "RO", view |-> tx[CHOOSE q \in Procs : tx[q].kind = "RW"].view]
    ELSE begin_ro_txn

\* begin_tx beginning a read-write transaction.
begin_tx_rw(p) == begin_rw_txn

\* Env::begin_tx: Tx::new(self.inner.begin_ro_txn()?)
begin_tx(p) == begin_ro_txn

\* Env::begin_mut_tx: Tx::new(self.inner.begin_rw_txn()?)
begin_mut_tx(p) == begin_rw_txn

\* A thread p enters function f of Env holding transaction t.
Enter(p, f, t, at) ==
    /\ pc[p] = "idle"
    /\ env.mode # "closed"
    /\ op' = [op EXCEPT ![p] = f]
    /\ tx' = [tx EXCEPT ![p] = t]
    /\ pc' = [pc EXCEPT ![p] = at]
    /\ life' = [life EXCEPT ![p] = [NoLife EXCEPT !.begun = 1, !.tries = 1]]
    /\ start' = [start EXCEPT ![p] = truth]
    /\ UNCHANGED <<db, truth, puts, got, fret, out>>
    /\ UNCHANGED envVars

\* The function asking the engine a second time when it could not begin
\* the transaction, and going on when the second attempt succeeds.
EnterFail_Retries(p, f) ==
    /\ pc[p] = "idle"
    /\ env.mode # "closed"
    /\ op' = [op EXCEPT ![p] = f]
    /\ LET rw == f \in {"update", "begin_mut_tx", "create_tables"}
       IN IF rw => CanBeginRw
          THEN /\ tx' = [tx EXCEPT ![p] = IF rw THEN begin_rw_txn ELSE begin_ro_txn]
               /\ pc' = [pc EXCEPT ![p] = IF f = "create_tables" THEN "loop" ELSE "f"]
               /\ idx' = [idx EXCEPT ![p] = IF f = "create_tables" THEN 1 ELSE @]
               /\ life' = [life EXCEPT ![p] = [NoLife EXCEPT !.begun = 1, !.tries = 2]]
               /\ start' = [start EXCEPT ![p] = truth]
               /\ out' = out
          ELSE /\ pc' = [pc EXCEPT ![p] = "done"]
               /\ out' = [out EXCEPT ![p] = ErrOut("InitTransaction")]
               /\ life' = [life EXCEPT ![p] = [NoLife EXCEPT !.tries = 2]]
               /\ UNCHANGED <<tx, idx, start>>
    /\ UNCHANGED <<db, truth, puts, got, fret>>
    /\ UNCHANGED envVars

\* The engine could not begin the transaction: the function returns
\* map_err(KVError::InitTransaction)? at once.
EnterFail(p, f) ==
    /\ pc[p] = "idle"
    /\ env.mode # "closed"
    /\ op' = [op EXCEPT ![p] = f]
    /\ pc' = [pc EXCEPT ![p] = "done"]
    /\ out' = [out EXCEPT ![p] = ErrOut("InitTransaction")]
    /\ life' = [life EXCEPT ![p] = [NoLife EXCEPT !.tries = 1]]
    /\ UNCHANGED <<db, truth, tx, start, puts, got, fret, idx>>
    /\ UNCHANGED envVars

\* let tx = env.begin_tx() of a caller, as in tests::db_manual_put_get.
BeginTx(p) == Enter(p, "begin_tx", begin_tx(p), "f") /\ UNCHANGED idx
BeginTxFail(p) == EnterFail(p, "begin_tx")

\* let tx = env.begin_mut_tx() of a caller.
BeginMutTx(p) ==
    /\ CanBeginRw
    /\ Enter(p, "begin_mut_tx", begin_mut_tx(p), "f")
    /\ UNCHANGED idx
BeginMutTxFail(p) == EnterFail(p, "begin_mut_tx")

\* ------------------------------------------------------ Tx: get and put
\* Tx::get::<PlainState>(key): the entry under key as this transaction sees it.
TxGetResult(t, k) ==
    IF t.view.tables[PlainState] = "absent" THEN Failure
    ELSE IF t.view.data[k] = NoBytes THEN NotFound
    ELSE Decode(t.view.data[k])

TxGet(p, k) ==
    /\ pc[p] = "f"
    /\ got' = [got EXCEPT ![p] = [k |-> k, r |-> TxGetResult(tx[p], k)]]
    /\ UNCHANGED <<db, truth, pc, op, tx, start, puts, fret, out, idx, life>>
    /\ UNCHANGED envVars

\* Tx::put::<PlainState>(key, value), of a read-write transaction only: the
\* encoded value goes to the transaction's working copy.
TxPut(p, k, v) ==
    /\ pc[p] = "f"
    /\ tx[p].kind = "RW"
    /\ tx[p].view.tables[PlainState] # "absent"
    /\ tx' = [tx EXCEPT ![p].view.data[k] = Encode(v)]
    /\ puts' = [puts EXCEPT ![p][k] = <<v>>]
    /\ got' = [got EXCEPT ![p] = NoGet]
    /\ UNCHANGED <<db, truth, pc, op, start, fret, out, idx, life>>
    /\ UNCHANGED envVars

\* tx.commit() of a caller holding the transaction (Tx::commit).
ManualCommit(p, ok) ==
    /\ pc[p] = "f"
    /\ op[p] \in {"begin_tx", "begin_mut_tx"}
    /\ EngineCommit(p, ok)
    /\ pc' = [pc EXCEPT ![p] = "done"]
    /\ out' = [out EXCEPT ![p] = IF ok THEN OkOut(NotFound) ELSE ErrOut("Commit")]
    /\ UNCHANGED <<op, fret, idx>>
    /\ UNCHANGED envVars

\* tx.abort() of a caller holding the transaction, or the handle dropped.
ManualAbort(p) ==
    /\ pc[p] = "f"
    /\ op[p] \in {"begin_tx", "begin_mut_tx"}
    /\ EngineAbort(p)
    /\ pc' = [pc EXCEPT ![p] = "done"]
    /\ out' = [out EXCEPT ![p] = OkOut(NotFound)]
    /\ UNCHANGED <<op, fret, idx>>
    /\ UNCHANGED envVars

\* ------------------------------------------------- Env: view and update
\* let tx = self.begin_tx()?; of Env::view
ViewBegin(p) == Enter(p, "view", begin_tx(p), "f") /\ UNCHANGED idx
ViewBeginFail(p) == EnterFail(p, "view")

\* update beginning its transaction without waiting for the writer slot.
UpdateBegin_Unlocked(p) ==
    /\ env.mode = "ReadWrite"
    /\ Enter(p, "update", begin_mut_tx(p), "f")
    /\ UNCHANGED idx

\* let tx = self.begin_mut_tx()?; of Env::update
UpdateBegin(p) ==
    /\ CanBeginRw
    /\ Enter(p, "update", begin_mut_tx(p), "f")
    /\ UNCHANGED idx
UpdateBeginFail(p) == EnterFail(p, "update")

\* The values the operation f can return: what it read, or a value that
\* signals a failure of its own.
FRets(p) == {got[p].r, Failure}

\* The operation run a second time before its value is kept.
FReturn_Twice(p, r) ==
    /\ pc[p] = "f"
    /\ op[p] \in {"view", "update"}
    /\ fret' = [fret EXCEPT ![p] = <<r>>]
    /\ life' = [life EXCEPT ![p].calls = @ + 2]
    /\ pc' = [pc EXCEPT ![p] = "commit"]
    /\ got' = [got EXCEPT ![p] = NoGet]
    /\ UNCHANGED <<db, truth, op, tx, start, puts, out, idx>>
    /\ UNCHANGED envVars

\* let res = f(&tx); the operation returns r.
FReturn(p, r) ==
    /\ pc[p] = "f"
    /\ op[p] \in {"view", "update"}
    /\ fret' = [fret EXCEPT ![p] = <<r>>]
    /\ life' = [life EXCEPT ![p].calls = @ + 1]
    /\ pc' = [pc EXCEPT ![p] = "commit"]
    /\ got' = [got EXCEPT ![p] = NoGet]
    /\ UNCHANGED <<db, truth, op, tx, start, puts, out, idx>>
    /\ UNCHANGED envVars

\* view returning the value of f beside the commit error.
view_result_with_value(res, ok) ==
    IF ok THEN OkOut(res) ELSE [status |-> "Err", err |-> "Commit", val |-> <<res>>]

\* update turning a failure value of f into an error of its own.
update_result_failing(res, ok) ==
    IF ok /\ res.ok THEN OkOut(res) ELSE ErrOut("Commit")

\* tx.commit()?; Ok(res) of Env::view: the Result returned.
view_result(res, ok) == IF ok THEN OkOut(res) ELSE ErrOut("Commit")

\* tx.commit()?; Ok(res) of Env::update: the Result returned.
update_result(res, ok) == IF ok THEN OkOut(res) ELSE ErrOut("Commit")

\* view forgetting the transaction handle instead of committing it.
ViewCommit_Forgets(p, ok) ==
    /\ pc[p] = "commit"
    /\ op[p] = "view"
    /\ out' = [out EXCEPT ![p] = OkOut(fret[p][1])]
    /\ pc' = [pc EXCEPT ![p] = "done"]
    /\ UNCHANGED <<db, truth, tx, start, puts, got, life>>
    /\ UNCHANGED <<op, fret, idx>>
    /\ UNCHANGED envVars

\* tx.commit()?; Ok(res) of Env::view
ViewCommit(p, ok) ==
    /\ pc[p] = "commit"
    /\ op[p] = "view"
    /\ EngineCommit(p, ok)
    /\ out' = [out EXCEPT ![p] = view_result(fret[p][1], ok)]
    /\ pc' = [pc EXCEPT ![p] = "done"]
    /\ UNCHANGED <<op, fret, idx>>
    /\ UNCHANGED envVars

\* update dropping the transaction without committing it.
UpdateCommit_Dropped(p, ok) ==
    /\ pc[p] = "commit"
    /\ op[p] = "update"
    /\ EngineAbort(p)
    /\ out' = [out EXCEPT ![p] = OkOut(fret[p][1])]
    /\ pc' = [pc EXCEPT ![p] = "done"]
    /\ UNCHANGED <<op, fret, idx>>
    /\ UNCHANGED envVars

\* update aborting the transaction when f returned a failure value.
UpdateCommit_AbortOnFailure(p, ok) ==
    /\ pc[p] = "commit"
    /\ op[p] = "update"
    /\ IF fret[p][1].ok
       THEN /\ EngineCommit(p, ok)
            /\ out' = [out EXCEPT ![p] = update_result(fret[p][1], ok)]
       ELSE /\ EngineAbort(p)
            /\ out' = [out EXCEPT ![p] = OkOut(fret[p][1])]
    /\ pc' = [pc EXCEPT ![p] = "done"]
    /\ UNCHANGED <<op, fret, idx>>
    /\ UNCHANGED envVars

\* tx.commit()?; Ok(res) of Env::update
UpdateCommit(p, ok) ==
    /\ pc[p] = "commit"
    /\ op[p] = "update"
    /\ EngineCommit(p, ok)
    /\ out' = [out EXCEPT ![p] = update_result(fret[p][1], ok)]
    /\ pc' = [pc EXCEPT ![p] = "done"]
    /\ UNCHANGED <<op, fret, idx>>
    /\ UNCHANGED envVars

\* ---------------------------------------------------- Env::create_tables
\* create_tables passing the default flags whatever the table type.
TableFlags_plain(table_type) == "default"

\* The flags create_tables passes for a table type.
TableFlags(table_type) ==
    IF table_type = "DupSort" THEN "DUP_SORT" ELSE "default"

\* let tx = self.inner.begin_rw_txn()?
CreateTablesBegin(p) ==
    /\ CanBeginRw
    /\ Enter(p, "create_tables", begin_rw_txn, "loop")
    /\ idx' = [idx EXCEPT ![p] = 1]
CreateTablesBeginFail(p) == EnterFail(p, "create_tables")

\* The loop body emptying the table it opens.
create_table_reset(view, entry) ==
    [create_db(view, entry[2], TableFlags(entry[1])) EXCEPT !.data = EmptyDb.data]

\* The body of the loop for one entry of TABLES: create_db with the flags
\* of the entry's table type.
create_table(view, entry) == create_db(view, entry[2], TableFlags(entry[1]))

\* The loop committing the tables created so far when one creation fails.
CreateTablesStep_CommitsPartial(p, fault) ==
    /\ pc[p] = "loop"
    /\ idx[p] <= Len(TABLES)
    /\ LET entry == TABLES[idx[p]]
       IN IF /\ ~fault
             /\ DbiAvailable(p, entry[2])
             /\ CreateDbOk(tx[p].view, entry[2], TableFlags(entry[1]))
          THEN /\ tx' = [tx EXCEPT ![p].view = create_table(tx[p].view, entry)]
               /\ idx' = [idx EXCEPT ![p] = @ + 1]
               /\ pc' = [pc EXCEPT ![p] =
                            IF idx[p] = Len(TABLES) THEN "commit" ELSE "loop"]
               /\ life' = [life EXCEPT ![p].made =
                               Append(@, <<entry[2], TableFlags(entry[1])>>)]
               /\ UNCHANGED <<db, truth, start, puts, got, out>>
          ELSE /\ EngineCommit(p, TRUE)
               /\ out' = [out EXCEPT ![p] = ErrOut("TableCreation")]
               /\ pc' = [pc EXCEPT ![p] = "done"]
               /\ idx' = idx
    /\ UNCHANGED <<op, fret>>
    /\ UNCHANGED envVars

\* One iteration of the loop over TABLES.  When the engine creates (or
\* opens) the table the loop goes on; when it fails, by a fault of its own,
\* for want of a table handle or because the table exists with other flags,
\* map_err(KVError::TableCreation)? returns and tx is dropped.
CreateTablesStep(p, fault) ==
    /\ pc[p] = "loop"
    /\ idx[p] <= Len(TABLES)
    /\ LET entry == TABLES[idx[p]]
       IN IF /\ ~fault
             /\ DbiAvailable(p, entry[2])
             /\ CreateDbOk(tx[p].view, entry[2], TableFlags(entry[1]))
          THEN /\ tx' = [tx EXCEPT ![p].view = create_table(tx[p].view, entry)]
               /\ idx' = [idx EXCEPT ![p] = @ + 1]
               /\ pc' = [pc EXCEPT ![p] =
                            IF idx[p] = Len(TABLES) THEN "commit" ELSE "loop"]
               /\ life' = [life EXCEPT ![p].made =
                               Append(@, <<entry[2], TableFlags(entry[1])>>)]
               /\ UNCHANGED <<db, truth, start, puts, got, out>>
          ELSE /\ db' = db
               /\ truth' = truth
               /\ tx' = [tx EXCEPT ![p] = NoTx]
               /\ life' = [life EXCEPT ![p].aborts = @ + 1,
                                       ![p].faults = IF fault THEN @ + 1 ELSE @,
                                       ![p].full =
                                           IF DbiAvailable(p, entry[2]) THEN @ ELSE @ + 1,
                                       ![p].made =
                                           Append(@, <<entry[2], TableFlags(entry[1])>>)]
               /\ Forget(p)
               /\ out' = [out EXCEPT ![p] = ErrOut("TableCreation")]
               /\ pc' = [pc EXCEPT ![p] = "done"]
               /\ idx' = idx
    /\ UNCHANGED <<op, fret>>
    /\ UNCHANGED envVars

\* tx.commit()?; Ok(())
CreateTablesCommit(p, ok) ==
    /\ pc[p] = "commit"
    /\ op[p] = "create_tables"
    /\ EngineCommit(p, ok)
    /\ out' = [out EXCEPT ![p] = IF ok THEN OkOut(NotFound) ELSE ErrOut("Commit")]
    /\ pc' = [pc EXCEPT ![p] = "done"]
    /\ UNCHANGED <<op, fret, idx>>
    /\ UNCHANGED envVars

\* The caller has its Result and goes on to its next call.
Return(p) ==
    /\ pc[p] = "done"
    /\ pc' = [pc EXCEPT ![p] = "idle"]
    /\ op' = [op EXCEPT ![p] = "none"]
    /\ fret' = [fret EXCEPT ![p] = <<>>]
    /\ out' = [out EXCEPT ![p] = NoOut]
    /\ idx' = [idx EXCEPT ![p] = 0]
    /\ life' = [life EXCEPT ![p] = NoLife]
    /\ UNCHANGED <<db, truth, tx, start, puts, got>>
    /\ UNCHANGED envVars

Next ==
    \/ \E p \in Procs : CreateTablesBegin(p)
    \/ \E p \in Procs : CreateTablesBeginFail(p)
    \/ \E p \in Procs, fault \in BOOLEAN : CreateTablesStep(p, fault)
    \/ \E p \in Procs, ok \in BOOLEAN : CreateTablesCommit(p, ok)
    \/ \E p \in Procs : BeginTx(p)
    \/ \E p \in Procs : BeginTxFail(p)
    \/ \E p \in Procs : BeginMutTx(p)
    \/ \E p \in Procs : BeginMutTxFail(p)
    \/ \E p \in Procs, k \in Keys : TxGet(p, k)
    \/ \E p \in Procs, k \in Keys, v \in Vals : TxPut(p, k, v)
    \/ \E p \in Procs, ok \in BOOLEAN : ManualCommit(p, ok)
    \/ \E p \in Procs : ManualAbort(p)
    \/ \E p \in Procs : ViewBegin(p)
    \/ \E p \in Procs : ViewBeginFail(p)
    \/ \E p \in Procs : UpdateBegin(p)
    \/ \E p \in Procs : UpdateBeginFail(p)
    \/ \E p \in Procs : \E r \in FRets(p) : FReturn(p, r)
    \/ \E p \in Procs, ok \in BOOLEAN : ViewCommit(p, ok)
    \/ \E p \in Procs, ok \in BOOLEAN : UpdateCommit(p, ok)
    \/ \E p \in Procs : Return(p)
    \/ \E kind \in {"RO", "RW"} : Open(kind)
    \/ \E kind \in {"RO", "RW"} : OpenFail(kind)
    \/ Close

Spec == Init /\ [][Next]_vars

\* ================================================================ claims
Scoped == {"view", "update"}

\* The value the history expects thread p to read under key k: its own put,
\* else the last put committed before its transaction began.
Expect(p, k) ==
    LET w == Overlay(start[p], puts[p])[k]
    IN IF w = <<>> THEN NotFound ELSE Found(w[1])

\* Every put of the write set w is in the content d.
Visible(w, d) == \A k \in Keys : w[k] # <<>> => d.data[k] = Encode(w[k][1])

\* Every table of the registry exists in d with the flags of its type.
HasAllTables(d) ==
    \A j \in 1..Len(TABLES) : d.tables[TABLES[j][2]] = TableFlags(TABLES[j][1])

HasNoTable(d) == \A n \in TableNames : d.tables[n] = "absent"

\* C1: after put(k, v) in a read-write transaction and a successful commit,
\* get(k) in any transaction begun after that commit returns v, as long as
\* no later committed write touched k (start[p][k] is the last value
\* committed under k when p's transaction began).
C1_WriteCommitRead ==
    \A p \in Procs : \A k \in Keys :
        ( /\ tx[p].kind # "none"
          /\ got[p].k = k
          /\ puts[p][k] = <<>>
          /\ start[p][k] # <<>> )
        => got[p].r = Found(start[p][k][1])

\* A caller's read transaction on the location reopened read-only has read
\* a committed value.
C1_Witness ==
    \E p \in Procs : \E k \in Keys : \E v \in Vals :
        /\ env.mode = "ReadOnly"
        /\ op[p] = "begin_tx"
        /\ got[p].k = k
        /\ start[p][k] = <<v>>
        /\ got[p].r = Found(v)

\* C2: when the commit succeeds update(f) returns exactly the value f
\* returned and every put f made is in the committed content; a view on
\* the location reopened read-only reads the committed values.
C2_UpdateReturnsAndPersists ==
    /\ [](\A p \in Procs : \A k \in Keys : \A v \in Vals :
            ( /\ env.mode = "ReadOnly"
              /\ op[p] = "view"
              /\ tx[p].kind = "RO"
              /\ got[p].k = k
              /\ db.data[k] = Encode(v) )
            => got[p].r = Found(v))
    /\ [][\A p \in Procs :
            ( /\ op[p] = "update"
              /\ pc[p] = "commit"
              /\ pc'[p] = "done"
              /\ out'[p].status = "Ok" )
            => /\ out'[p].val = fret[p]
               /\ Visible(puts[p], db')]_vars

\* An update has returned Ok and a view on the reopened read-only
\* environment has read a stored value.
C2_Witness ==
    \E p, q \in Procs : \E v \in Vals :
        /\ op[p] = "update" /\ pc[p] = "done" /\ out[p].status = "Ok"
        /\ env.mode = "ReadOnly"
        /\ op[q] = "view" /\ pc[q] = "f" /\ got[q].r = Found(v)

\* C3: view(f) and update(f) commit whatever f returned: the step that ends
\* the call is a commit, never an abort, and unless the engine rejects that
\* commit the puts of f are in the committed content.
C3_CommitsRegardless ==
    [][\A p \in Procs :
        ( /\ op[p] \in Scoped
          /\ pc[p] = "commit"
          /\ pc'[p] = "done" )
        => /\ life'[p].commits = 1
           /\ life'[p].aborts = 0
           /\ (life'[p].rejected = 0 => Visible(puts[p], db'))]_vars

\* An update whose f returned a failure value has committed a put.
C3_Witness ==
    \E p \in Procs : \E k \in Keys :
        /\ op[p] = "update" /\ pc[p] = "done"
        /\ fret[p] = <<Failure>>
        /\ life[p].commits = 1 /\ life[p].rejected = 0
        /\ out[p] = OkOut(Failure)
        /\ db.data[k] # NoBytes

\* C4: a value put in an uncommitted read-write transaction is not observed
\* by a read transaction active at the same time: while writer q holds an
\* uncommitted put(k, v), reader p's get(k) does not return v (unless v was
\* already the committed value under k when p began).
C4_UncommittedInvisible ==
    \A p, q \in Procs : \A k \in Keys : \A v \in Vals :
        ( /\ tx[p].kind = "RO"
          /\ tx[q].kind = "RW"
          /\ puts[q][k] = <<v>>
          /\ got[p].k = k
          /\ start[p][k] # <<v>> )
        => got[p].r # Found(v)

\* A reader has read key k while a writer holds an uncommitted put on k.
C4_Witness ==
    \E p, q \in Procs : \E k \in Keys : \E v \in Vals :
        /\ tx[p].kind = "RO" /\ tx[q].kind = "RW"
        /\ puts[q][k] = <<v>>
        /\ got[p].k = k
        /\ got[p].r.ok
        /\ got[p].r # Found(v)

\* C5: a transaction observes the content as of its start for its whole
\* life: every get returns the last value committed before the transaction
\* began (or the transaction's own put), whatever was committed since.
C5_SnapshotStability ==
    \A p \in Procs : \A k \in Keys :
        (tx[p].kind # "none" /\ got[p].k = k)
        => /\ got[p].r.ok => got[p].r = Expect(p, k)
           /\ Expect(p, k) # NotFound => got[p].r = Expect(p, k)

\* A reader that was in flight when a write to k was committed has read k.
C5_Witness ==
    \E p \in Procs : \E k \in Keys :
        /\ tx[p].kind = "RO"
        /\ got[p].k = k
        /\ got[p].r.ok
        /\ start[p][k] # truth[k]

\* C6: create_tables is all-or-nothing: the committed tables are none or
\* all of the registry; a call that returns an error leaves the committed
\* content as it was; a failed creation is never followed by a commit; and
\* a commit is attempted only after every creation succeeded.
C6_CreateTablesAllOrNothing ==
    /\ [](HasNoTable(db) \/ HasAllTables(db))
    /\ [][\A p \in Procs :
            /\ ( /\ op'[p] = "create_tables"
                 /\ pc[p] # "done"
                 /\ pc'[p] = "done"
                 /\ out'[p].status = "Err" )
               => /\ db' = db
                  /\ out'[p].err = "TableCreation" => life'[p].commits = 0
            /\ ( /\ op[p] = "create_tables"
                 /\ life'[p].commits > life[p].commits )
               => /\ idx[p] = Len(TABLES) + 1
                  /\ HasAllTables(tx[p].view)]_vars

\* create_tables failed on a later table after creating earlier ones, and
\* no table is in the committed content.
C6_Witness ==
    \E p \in Procs :
        /\ op[p] = "create_tables" /\ pc[p] = "done"
        /\ out[p] = ErrOut("TableCreation")
        /\ idx[p] > 1
        /\ HasNoTable(db)

\* C7: create_tables on a location that already holds the tables does not
\* fail on that account (only a fault of the engine makes it fail), and
\* leaves the tables, their flags and every stored entry unchanged.
C7_CreateTablesIdempotent ==
    [][\A p \in Procs :
        ( /\ op[p] = "create_tables"
          /\ pc[p] \in {"loop", "commit"}
          /\ HasAllTables(db) )
        => /\ db' = db
           /\ (pc'[p] = "done" /\ out'[p].status = "Err")
              => \/ life'[p].faults > life[p].faults
                 \/ life'[p].rejected > life[p].rejected]_vars

\* A second create_tables has returned Ok over stored entries.
C7_Witness ==
    \E p \in Procs : \E k \in Keys :
        /\ op[p] = "create_tables" /\ pc[p] = "done"
        /\ out[p].status = "Ok"
        /\ db.data[k] # NoBytes

\* C8: view and update never leak the transaction they begin: when the
\* call has returned the thread holds no transaction, and the transaction
\* that was begun was finalized (committed or aborted) exactly once.
C8_NoLeak ==
    \A p \in Procs :
        /\ pc[p] \in {"idle", "done"} => tx[p].kind = "none"
        /\ (pc[p] = "done" /\ op[p] \in Scoped)
           => life[p].commits + life[p].aborts = life[p].begun

\* A view whose commit the engine rejected has returned.
C8_Witness ==
    \E p \in Procs :
        /\ op[p] = "view" /\ pc[p] = "done"
        /\ life[p].begun = 1 /\ life[p].commits = 1 /\ life[p].rejected = 1
        /\ tx[p].kind = "none"

\* C9 as stated: view and update return an error if and only if the engine
\* rejected the commit of the transaction they began.
C9_OnlyCommitFailureErrors ==
    \A p \in Procs :
        (pc[p] = "done" /\ op[p] \in Scoped)
        => (out[p].status = "Err" <=> life[p].rejected = 1)

\* C9 amended: view and update return an error if and only if the engine
\* failed to begin their transaction (InitTransaction) or rejected its
\* commit (Commit); the value f returns never makes them return an error.
C9_ErrorIffBeginOrCommitFailed ==
    \A p \in Procs :
        (pc[p] = "done" /\ op[p] \in Scoped)
        => /\ out[p].status = "Err" <=> (life[p].begun = 0 \/ life[p].rejected = 1)
           /\ life[p].begun = 0 => out[p].err = "InitTransaction"
           /\ life[p].rejected = 1 => out[p].err = "Commit"

\* An update has returned the error of a transaction that could not begin,
\* while another has committed with f returning a failure value.
C9_Witness ==
    \E p \in Procs :
        /\ op[p] = "update" /\ pc[p] = "done"
        /\ out[p] = ErrOut("InitTransaction")
        /\ life[p].begun = 0 /\ life[p].commits = 0

\* C10 as stated: when the commit fails inside view or update, the value f
\* produced is still delivered to the caller together with the commit error.
C10_ValueWithCommitError ==
    \A p \in Procs :
        (pc[p] = "done" /\ op[p] \in Scoped /\ life[p].rejected = 1)
        => out[p].val = fret[p]

\* C10 amended: when the commit fails inside view or update, the helper
\* returns the commit error alone; the value f produced is dropped.
C10_CommitErrorDropsValue ==
    \A p \in Procs :
        (pc[p] = "done" /\ op[p] \in Scoped /\ life[p].rejected = 1)
        => /\ out[p] = ErrOut("Commit")
           /\ fret[p] # <<>>
           /\ out[p].val = <<>>

\* An update whose f returned a value has had its commit rejected.
C10_Witness ==
    \E p \in Procs :
        /\ op[p] = "update" /\ pc[p] = "done"
        /\ life[p].rejected = 1
        /\ fret[p] # <<>>

\* The content d with the puts of the write set w applied.
Apply(d, w) ==
    [d EXCEPT !.data = [k \in Keys |-> IF w[k] # <<>> THEN Encode(w[k][1])
                                                      ELSE d.data[k]]]

\* C11: at any moment at most one read-write transaction is active, while
\* a read transaction can always be begun beside it; the writes of two
\* update calls do not interleave: an update that commits turns the
\* committed content into that content with exactly its own puts applied,
\* so two updates leave what running them one after the other leaves.
C11_SingleWriterManyReaders ==
    /\ [](Cardinality({p \in Procs : tx[p].kind = "RW"}) <= 1)
    /\ [](\A p \in Procs :
            (pc[p] = "idle" /\ env.mode # "closed") => ENABLED ViewBegin(p))
    /\ [][\A p \in Procs :
            ( /\ op[p] = "update"
              /\ pc[p] = "commit"
              /\ pc'[p] = "done"
              /\ life'[p].rejected = life[p].rejected )
            => db' = Apply(db, puts[p])]_vars

\* One update has returned Ok and the other thread's update holds the
\* writer slot with a put of its own, over the first one's committed put.
C11_Witness ==
    \E p, q \in Procs : \E k \in Keys :
        /\ p # q
        /\ op[p] = "update" /\ pc[p] = "done" /\ out[p].status = "Ok"
        /\ op[q] = "update" /\ tx[q].kind = "RW"
        /\ puts[q][k] # <<>>
        /\ db.data[k] # NoBytes
        /\ tx[q].view.data[k] # db.data[k]

\* The flags the registry asks for: duplicate-sort for a DupSort entry, the
\* default flags for a Table entry.
RegistryFlags(j) == IF TABLES[j][1] = "DupSort" THEN "DUP_SORT" ELSE "default"

\* C12: when create_tables has returned Ok, create_db was called exactly
\* once per registry entry, in registry order and in one write transaction,
\* with the duplicate-sort flag for every DupSort entry and the default
\* flags for every Table entry, and for no other name; every table of the
\* registry exists with those flags.
C12_CreateTablesFollowsRegistry ==
    \A p \in Procs :
        (op[p] = "create_tables" /\ pc[p] = "done" /\ out[p].status = "Ok")
        => /\ Len(life[p].made) = Len(TABLES)
           /\ \A j \in 1..Len(TABLES) :
                  life[p].made[j] = <<TABLES[j][2], RegistryFlags(j)>>
           /\ life[p].begun = 1 /\ life[p].commits = 1 /\ life[p].aborts = 0
           /\ \A j \in 1..Len(TABLES) : db.tables[TABLES[j][2]] = RegistryFlags(j)

\* create_tables has returned Ok on a location that held no table before:
\* the duplicate-sort table and a plain table exist.
C12_Witness ==
    \E p \in Procs : \E i, j \in 1..Len(TABLES) :
        /\ op[p] = "create_tables" /\ pc[p] = "done" /\ out[p] = OkOut(NotFound)
        /\ TABLES[i][1] = "DupSort" /\ db.tables[TABLES[i][2]] = "DUP_SORT"
        /\ TABLES[j][1] = "Table" /\ db.tables[TABLES[j][2]] = "default"
        /\ Len(life[p].made) = Len(TABLES)

\* C13: every failure of the engine comes back to the immediate caller as
\* its own error kind, with no retry: a refused open leaves DatabaseLocation
\* and no Env; a call of begin_tx, begin_mut_tx, view, update or
\* create_tables asks the engine to begin its transaction exactly once and
\* returns InitTransaction when that fails; a failed create_db makes
\* create_tables return TableCreation, every create_db having been called
\* once, the failing one last.
C13_EngineFailuresSurface ==
    /\ envErr \in {"none", "DatabaseLocation"}
    /\ envErr = "DatabaseLocation" => env.mode = "closed"
    /\ \A p \in Procs :
        /\ op[p] # "none" => life[p].tries = 1
        /\ pc[p] = "done"
           => /\ life[p].begun = 0 <=> out[p] = ErrOut("InitTransaction")
              /\ out[p].err = "TableCreation"
                 <=> (op[p] = "create_tables" /\ life[p].aborts = 1)
              /\ out[p].err = "TableCreation"
                 => /\ out[p] = ErrOut("TableCreation")
                    /\ life[p].commits = 0
                    /\ Len(life[p].made) = idx[p]
                    /\ \A i, j \in 1..Len(life[p].made) :
                           life[p].made[i][1] = life[p].made[j][1] => i = j

\* A refused open, a begin_tx that could not begin and a create_tables whose
\* create_db failed have each returned their error.
C13_Witness ==
    \E p, q \in Procs :
        /\ envErr = "DatabaseLocation"
        /\ op[p] = "begin_tx" /\ out[p] = ErrOut("InitTransaction")
        /\ op[q] = "create_tables" /\ out[q] = ErrOut("TableCreation")
        /\ life[q].faults = 1

\* C14: in view(f) and update(f) the operation f is invoked exactly once,
\* after the transaction was begun and while it is still open, and the
\* commit is attempted only once f has returned; when the transaction could
\* not be begun, f is never invoked and no commit is attempted.
C14_OperationRunsOnceBetweenBeginAndCommit ==
    /\ [](\A p \in Procs :
            op[p] \in {"view", "update"}
            => /\ pc[p] = "f"
                  => (life[p].begun = 1 /\ life[p].calls = 0 /\ life[p].commits = 0)
               /\ pc[p] = "commit"
                  => (life[p].begun = 1 /\ life[p].calls = 1 /\ life[p].commits = 0)
               /\ pc[p] = "done"
                  => IF life[p].begun = 1
                     THEN life[p].calls = 1 /\ life[p].commits = 1
                     ELSE /\ life[p].calls = 0 /\ life[p].commits = 0
                          /\ fret[p] = <<>>)
    /\ [][\A p \in Procs :
            (op[p] \in {"view", "update"} /\ op'[p] = op[p])
            => /\ life'[p].calls # life[p].calls
                  => /\ life[p].begun = 1 /\ life[p].commits = 0
                     /\ tx[p].kind # "none" /\ tx'[p] = tx[p]
               /\ life'[p].commits # life[p].commits
                  => life[p].calls = 1 /\ life'[p].calls = 1]_vars

\* A view that ran f and committed, beside an update that could not begin.
C14_Witness ==
    \E p, q \in Procs :
        /\ op[p] = "view" /\ pc[p] = "done"
        /\ life[p].begun = 1 /\ life[p].calls = 1 /\ life[p].commits = 1
        /\ op[q] = "update" /\ pc[q] = "done"
        /\ life[q].begun = 0 /\ life[q].calls = 0 /\ out[q].status = "Err"

\* C15: view(f) leaves the stored data unchanged: no step of a view call,
\* from beginning its read-only transaction through f to the commit,
\* accepted or rejected, changes the set of tables or any committed
\* key/value pair.
C15_ViewLeavesDataUnchanged ==
    [][\A p \in Procs :
        (/\ op'[p] = "view"
         /\ \/ op[p] # "view"
            \/ pc'[p] # pc[p]
            \/ got'[p] # got[p]
            \/ tx'[p] # tx[p])
        => /\ db' = db
           /\ tx'[p].kind \in {"RO", "none"}
           /\ puts'[p] = NoWrites]_vars

\* Over committed data, one view has returned f's value and another the
\* error of its rejected commit.
C15_Witness ==
    \E p, q \in Procs : \E k \in Keys :
        /\ db.data[k] # NoBytes
        /\ HasAllTables(db)
        /\ op[p] = "view" /\ pc[p] = "done"
        /\ out[p] = OkOut(Decode(db.data[k]))
        /\ op[q] = "view" /\ pc[q] = "done" /\ out[q] = ErrOut("Commit")
        /\ life[q].calls = 1 /\ life[q].rejected = 1

\* C16: open(path, kind) does not create the tables: an open, read-only or
\* read-write, accepted or refused, leaves the set of tables and the stored
\* data as they were; the set of tables changes only by the accepted commit
\* of a create_tables() call, so a location never given one has no table.
C16_OpenCreatesNoTable ==
    /\ [](~created => HasNoTable(db))
    /\ [][/\ (env.mode = "closed"
              /\ (env' # env \/ envErr' # envErr \/ created' # created))
             => db' = db
          /\ db'.tables # db.tables
             => \E p \in Procs :
                    /\ op[p] = "create_tables"
                    /\ pc[p] = "commit" /\ pc'[p] = "done"
                    /\ out'[p].status = "Ok"]_vars

\* A location opened read-write, closed and opened again read-only, still
\* without any table: a get in it has failed.
C16_Witness ==
    /\ env.mode = "ReadOnly"
    /\ HasNoTable(db)
    /\ \E p \in Procs :
        /\ op[p] = "view" /\ pc[p] = "commit"
        /\ fret[p] = <<Failure>>
        /\ tx[p].view = db

\* C17: on an environment opened with EnvKind::RO no mutation is possible:
\* no read-write transaction exists, create_tables(), begin_mut_tx() and
\* update(f) return the InitTransaction error at once, before any create_db
\* call, any call of f or any put, and no step changes the stored data.
C17_ReadOnlyEnvRefusesMutation ==
    /\ [](env.kind = "RO" => \A p \in Procs : tx[p].kind # "RW")
    /\ [][env.kind = "RO"
          => /\ db' = db
             /\ \A p \in Procs :
                  (/\ op[p] = "none"
                   /\ op'[p] \in {"create_tables", "begin_mut_tx", "update"})
                  => /\ pc'[p] = "done"
                     /\ out'[p] = ErrOut("InitTransaction")
                     /\ tx'[p] = NoTx
                     /\ puts'[p] = NoWrites
                     /\ life'[p].begun = 0
                     /\ life'[p].calls = 0
                     /\ life'[p].made = <<>>]_vars

\* On a read-only environment over committed data, create_tables and update
\* have both returned the InitTransaction error.
C17_Witness ==
    \E p, q \in Procs : \E k \in Keys :
        /\ env.kind = "RO"
        /\ db.data[k] # NoBytes
        /\ op[p] = "create_tables" /\ out[p] = ErrOut("InitTransaction")
        /\ op[q] = "update" /\ out[q] = ErrOut("InitTransaction")

\* The registries the rule of the maximum table count is tried on: every
\* sequence of registry entries up to one entry longer than TABLES.
Registries ==
    UNION {[1..n -> {TABLES[i] : i \in 1..Len(TABLES)}] : n \in 0..(Len(TABLES) + 1)}

\* The tables opened or created by the first n iterations over registry reg.
Opened(reg, n) == {reg[i][2] : i \in 1..n}

\* Whatever the registry, the tables opened or created by the loop of
\* create_tables() never outnumber the maximum table count open() sets.
RegistryWithinMaxDbs ==
    \A reg \in Registries : \A n \in 0..Len(reg) :
        Cardinality(Opened(reg, n)) <= max_dbs(reg)

\* C18: the maximum table count of the environment is the number of
\* registry entries; whatever the registry, the tables opened or created by
\* the loop of create_tables() never outnumber it; so during create_tables()
\* the transaction's tables stay within the maximum, the engine always has
\* a handle for the next table, and no create_db is refused for the limit.
C18_MaxDbsCoversRegistry ==
    /\ RegistryWithinMaxDbs
    /\ env.mode # "closed" => env.maxDbs = Len(TABLES)
    /\ \A p \in Procs :
        op[p] = "create_tables"
        => /\ life[p].full = 0
           /\ pc[p] \in {"loop", "commit"}
              => Cardinality(Handles(p)) <= env.maxDbs
           /\ pc[p] = "loop" => DbiAvailable(p, TABLES[idx[p]][2])

\* create_tables() has created every table of the registry in an empty
\* location and is about to commit: as many tables as the maximum.
C18_Witness ==
    \E p \in Procs :
        /\ op[p] = "create_tables" /\ pc[p] = "commit"
        /\ HasNoTable(db)
        /\ Len(life[p].made) = Len(TABLES)
        /\ Cardinality(Handles(p)) = env.maxDbs
====
